---- MODULE Spec2Model ----
(***************************************************************************)
(* Model of the social_media_promotion package.                            *)
(*                                                                         *)
(*   Spec      the orchestrator of main.py: the three pipeline functions,  *)
(*             the form handlers of app.py that call them, the chains of   *)
(*             crew.py run step by step, the video tool of img_tool.py     *)
(*             and the catalog write add_product_to_website.               *)
(*   SpecShop  the storefront of app_shop.py (the second, live FastAPI     *)
(*             application of that file): uploads, API uploads, deletions  *)
(*             and the orchestrator's catalog write, as concurrent         *)
(*             requests against one SQLite database.                       *)
(*                                                                         *)
(* Strings stand for themselves.  Paths are strings; os.path.basename and  *)
(* the uploads directory are the tables Basename and WebPath.              *)
(***************************************************************************)
EXTENDS Integers, Sequences, FiniteSets, TLC

VARIABLES
    caseInsensitiveEnv, \* platform: os.environ ignores the case of names (Windows)
    apiKey,             \* GEMINI_API_KEY or GOOGLE_API_KEY is configured
    env,                \* os.environ, the process-wide configuration
    files,              \* the paths that exist on disk
    users,              \* table "users" of shop.db
    products,           \* table "products" of shop.db
    run,                \* the pipeline call in progress, or the last one
    calls,              \* the adapter endpoints invoked by the current run, in order
    reqs,               \* the storefront requests in flight
    tool,               \* the video tool call in progress, when a tool is called on its own
    audio,              \* the audio note a form is handling
    threads,            \* the pipeline calls of two threads of one process
    posts,              \* the story posts of two threads of one process
    sessions            \* column session_id of table "users", and the cookies issued

vars == <<caseInsensitiveEnv, apiKey, env, files, users, products, run, calls, reqs, tool,
          audio, threads, posts, sessions>>

----------------------------------------------------------------------------
(* Input domains *)

UserNames    == {"", " ", "alice"}
ProductNames == {"", "Mug"}
DetailTexts  == {"", "v1", "v2"}
CostTexts    == {"50", "12", "fifty"}
StoryTexts   == {"", "s1"}
UploadedImage == "images/a.png"
GeneratedImagePath == "images/imagen_generated.png"
GeneratedVideoPath == "videos/veo_generated.mp4"
SampleVideoPath    == "videos/product_video.mp4"
UiImages     == {"", UploadedImage}
Language     == "English"

Unset == "<unset>"

\* str.strip() on the modelled texts
Strip(s) == IF s = " " THEN "" ELSE s

\* str.isdigit() on the modelled cost texts
IsDigit(s) == s \in {"50", "12"}

\* int(s) for a digit string
IntOf(s) == CASE s = "50" -> 50 [] s = "12" -> 12 [] OTHER -> 0

\* str(n)
StrOfInt(n) == CASE n = 50 -> "50" [] n = 12 -> "12" [] OTHER -> "0"

\* app.py: int(cost) if cost.isdigit() else 0
CoerceCost(s) == IF IsDigit(s) THEN IntOf(s) ELSE 0

\* main.py: str(inputs.get("cost") or "").strip() ; 0 is falsy
CostVal(n) == IF n = 0 THEN "" ELSE StrOfInt(n)

\* os.path.basename
Basename(p) ==
    CASE p = "images/a.png" -> "a.png"
      [] p = "uploads/a.png" -> "a.png"
      [] p = GeneratedImagePath -> "imagen_generated.png"
      [] p = "uploads/imagen_generated.png" -> "imagen_generated.png"
      [] OTHER -> ""

\* WEB_UPLOADS_DIR / filename
WebPath(name) ==
    CASE name = "a.png" -> "uploads/a.png"
      [] name = "imagen_generated.png" -> "uploads/imagen_generated.png"
      [] OTHER -> ""

----------------------------------------------------------------------------
(* os.environ *)

EnvKeys == {"user", "cost", "product_name", "product_description",
            "image_path", "IMAGE_PATH", "language", "user_story"}

\* the name under which the platform stores a variable
EnvName(k) == IF caseInsensitiveEnv /\ k = "image_path" THEN "IMAGE_PATH" ELSE k

\* os.getenv(k, default)
Getenv(e, k, default) == IF e[EnvName(k)] = Unset THEN default ELSE e[EnvName(k)]

\* os.environ[k] = v
Setenv(e, k, v) == [e EXCEPT ![EnvName(k)] = v]

\* if v: os.environ[k] = v
SetenvIf(e, k, v) == IF v # "" THEN Setenv(e, k, v) ELSE e

EnvInit == [k \in EnvKeys |-> Unset]

----------------------------------------------------------------------------
(* shop.db: the tables of app_shop.py and main.py *)

MaxOf(S) == CHOOSE m \in S : \A x \in S : x <= m

\* the id SQLite gives a new row of an INTEGER PRIMARY KEY table
NewId(T) == IF T = {} THEN 1 ELSE MaxOf({t.id : t \in T}) + 1

\* the username in lower case, for the usernames of the model
Lower(username) == IF username = "User" THEN "user" ELSE username

\* a look-up that compares usernames without regard to case
UsersNamedIgnoringCase(U, username) == {u \in U : Lower(u.username) = Lower(username)}

\* db.query(User).filter(User.username == username).first()
UsersNamed(U, username) == {u \in U : u.username = username}

\* db.query(Product).filter(Product.user_id == uid, Product.name == name).first()
ProductsOf(P, uid, name) == {p \in P : p.user_id = uid /\ p.name = name}

\* class User: username = Column(String, unique=True)
UsernameTaken(U, username) == UsersNamed(U, username) # {}

\* the products table without its UniqueConstraint: every INSERT is accepted
NoUniqueConstraint(P, uid, name) == TRUE

\* class Product: UniqueConstraint('user_id', 'name')
UniqueUserProduct(P, uid, name) == ProductsOf(P, uid, name) = {}

\* INSERT INTO users; the row is refused when the username is taken
InsertUser(U, username) ==
    IF UsernameTaken(U, username) THEN U
    ELSE U \cup {[id |-> NewId(U), username |-> username, is_admin |-> FALSE]}

\* INSERT INTO products; the row is refused when (user_id, name) is taken
InsertProduct(P, name, details, price, image_path, uid) ==
    IF UniqueUserProduct(P, uid, name)
    THEN P \cup {[id |-> NewId(P), name |-> name, details |-> details,
                  price |-> price, image_path |-> image_path, user_id |-> uid]}
    ELSE P

\* an update that forgets existing.price = price
UpdateProductKeepsPrice(P, pid, details, price, img) ==
    {IF p.id = pid
     THEN [p EXCEPT !.details = details, !.image_path = IF img # "" THEN img ELSE @]
     ELSE p : p \in P}

\* an update that stores the image of the request even when there is none
UpdateProductAlwaysSetsImage(P, pid, details, price, img) ==
    {IF p.id = pid
     THEN [p EXCEPT !.details = details, !.price = price, !.image_path = img]
     ELSE p : p \in P}

\* UPDATE products SET ... WHERE id = pid; image_path is kept when img = ""
UpdateProduct(P, pid, details, price, img) ==
    {IF p.id = pid
     THEN [p EXCEPT !.details = details, !.price = price,
                    !.image_path = IF img # "" THEN img ELSE @]
     ELSE p : p \in P}

\* main.py add_product_to_website, run without interruption: the users table after it
AddProductUsers(U, user_name) ==
    IF UsersNamed(U, user_name) # {} THEN U ELSE InsertUser(U, user_name)

\* main.py add_product_to_website, run without interruption: the products table after it
AddProductProducts(U, P, user_name, product_name, product_details, image_path, price) ==
    LET U2  == AddProductUsers(U, user_name)
        uid == (CHOOSE u \in UsersNamed(U2, user_name) : TRUE).id
    IN  IF ProductsOf(P, uid, product_name) # {}
        THEN P
        ELSE InsertProduct(P, product_name, product_details, price,
                           IF image_path # "" THEN Basename(image_path) ELSE "", uid)

----------------------------------------------------------------------------
(* crew.py: the chains *)

crew_without_image ==
    <<"summary_generator", "caption_generation", "generate_imagen_prompt",
      "execute_image_generation", "generate_veo_prompt", "execute_video_generation",
      "telegram_channel_post_task", "telegram_story_task">>

\* the with-image chain with its two publish steps exchanged
crew_with_image_story_first ==
    <<"summary_generator", "caption_generation", "generate_veo_prompt",
      "execute_video_generation", "telegram_story_task", "telegram_channel_post_task">>

crew_with_image ==
    <<"summary_generator", "caption_generation", "generate_veo_prompt",
      "execute_video_generation", "telegram_channel_post_task", "telegram_story_task">>

\* a price chain that goes on to publish its analysis
crew_price_generation_and_post == <<"price_analysis_task", "telegram_channel_post_task">>

crew_price_generation == <<"price_analysis_task">>

crew_story_advertising ==
    <<"story_advertising_task", "telegram_story_channel_post_task",
      "telegram_story_story_post_task">>

ChainOf(name) ==
    CASE name = "without_image" -> crew_without_image
      [] name = "with_image" -> crew_with_image
      [] name = "price" -> crew_price_generation
      [] name = "story" -> crew_story_advertising
      [] OTHER -> <<>>

\* SocialMediaPromotion.__init__: the values the crew reads from the environment
CrewInit(e) ==
    [user |-> Getenv(e, "user", "the user"),
     cost |-> Getenv(e, "cost", "the cost"),
     product_name |-> Getenv(e, "product_name", "our amazing product"),
     product_description |-> Getenv(e, "product_description", "a detailed product description"),
     user_story |-> Getenv(e, "user_story", "their personal journey and challenges"),
     image_path |-> Getenv(e, "image_path", ""),
     language |-> Getenv(e, "language", "English")]

\* copy_image_to_web_dir: the path it returns; ok tells whether shutil.copy2 succeeds
CopyResult(F, image_path, ok) ==
    IF image_path = "" \/ image_path \notin F THEN ""
    ELSE IF ok THEN WebPath(Basename(image_path)) ELSE image_path

\* copy_image_to_web_dir: the files after it
CopyFiles(F, image_path, ok) ==
    IF image_path # "" /\ image_path \in F /\ ok
    THEN F \cup {WebPath(Basename(image_path))} ELSE F

----------------------------------------------------------------------------
(* main.py: the pipeline functions *)

NoCrew == [user |-> "", cost |-> "", product_name |-> "", product_description |-> "",
           user_story |-> "", image_path |-> "", language |-> ""]

\* no pipeline call has been made yet
NoRun == [kind |-> "none", phase |-> "idle", ui |-> FALSE,
          user |-> "", product |-> "", details |-> "", story |-> "",
          cost |-> 0, costText |-> "", img |-> "", imgExisted |-> FALSE,
          stored |-> FALSE, created |-> FALSE,
          crew |-> NoCrew, chain |-> "none", pc |-> 0,
          video |-> "", usedImage |-> "", absorbed |-> FALSE]

Busy == run.phase # "idle"

\* main.py 158: inputs.get("product_image_path") or inputs.get("image_path") or os.getenv("image_path")
SelectChain(img, e) ==
    IF img # "" \/ Getenv(e, "image_path", "") # "" THEN "with_image" ELSE "without_image"

\* main.py 130-151: the environment after a promotion call has stored its inputs
PromotionEnv(e, F, user, cost, product, details, img, copyOk) ==
    LET e1 == SetenvIf(e, "user", Strip(user))
        e2 == SetenvIf(e1, "cost", CostVal(cost))
        e3 == SetenvIf(e2, "product_name", Strip(product))
        e4 == SetenvIf(e3, "product_description", Strip(details))
        e5 == IF Strip(img) # ""
              THEN Setenv(e4, "image_path", CopyResult(F, Strip(img), copyOk))
              ELSE e4
    IN  SetenvIf(e5, "language", Language)

\* run_promotion_pipeline up to kickoff (main.py 119-162); F is the disk at the call
run_promotion_pipeline(ui, F, user, costText, cost, product, details, img, copyOk) ==
    LET e2 == PromotionEnv(env, F, user, cost, product, details, img, copyOk)
    IN  /\ env' = e2
        /\ files' = CopyFiles(F, Strip(img), copyOk)
        /\ calls' = <<>>
        /\ run' = [NoRun EXCEPT !.kind = "full_promotion", !.phase = "running", !.ui = ui,
                       !.user = user, !.product = product, !.details = details,
                       !.cost = cost, !.costText = costText, !.img = img,
                       !.imgExisted = (img # "" /\ img \in F),
                       !.crew = CrewInit(e2), !.chain = SelectChain(img, e2), !.pc = 1]

\* run_price_generation_pipeline up to kickoff (main.py 185-215)
run_price_generation_pipeline(ui, user, product, details) ==
    LET e1 == SetenvIf(env, "user", Strip(user))
        e2 == SetenvIf(e1, "product_name", Strip(product))
        e3 == SetenvIf(e2, "product_description", Strip(details))
        e4 == SetenvIf(e3, "language", Language)
    IN  /\ env' = e4
        /\ calls' = <<>>
        /\ run' = [NoRun EXCEPT !.kind = "price_only", !.phase = "running", !.ui = ui,
                       !.user = user, !.product = product, !.details = details,
                       !.crew = CrewInit(e4), !.chain = "price", !.pc = 1]

\* run_story_advertising_pipeline up to kickoff (main.py 223-266)
run_story_advertising_pipeline(ui, F, user, story, product, details, img, copyOk) ==
    LET e1 == SetenvIf(env, "user", Strip(user))
        e2 == SetenvIf(e1, "user_story", Strip(story))
        e3 == SetenvIf(e2, "product_name", Strip(product))
        e4 == SetenvIf(e3, "product_description", Strip(details))
        e5 == IF Strip(img) # ""
              THEN Setenv(e4, "image_path", CopyResult(F, Strip(img), copyOk))
              ELSE e4
        e6 == SetenvIf(e5, "language", Language)
    IN  /\ env' = e6
        /\ files' = CopyFiles(F, Strip(img), copyOk)
        /\ calls' = <<>>
        /\ run' = [NoRun EXCEPT !.kind = "story", !.phase = "running", !.ui = ui,
                       !.user = user, !.product = product, !.details = details,
                       !.story = story, !.img = img,
                       !.imgExisted = (img # "" /\ img \in F),
                       !.crew = CrewInit(e6), !.chain = "story", !.pc = 1]

\* the form handler shows st.error and calls nothing
Rejected(kind, user, product, details, story, F) ==
    /\ run' = [NoRun EXCEPT !.kind = kind, !.phase = "rejected", !.ui = TRUE,
                   !.user = Strip(user), !.product = Strip(product),
                   !.details = Strip(details), !.story = Strip(story)]
    /\ calls' = <<>>
    /\ files' = F
    /\ env' = env

\* save_uploaded_image (app.py 16-26): the disk after the form has saved the upload
SaveUploaded(F, uploaded) == IF uploaded # "" THEN F \cup {uploaded} ELSE F

\* app.py main, tab "Full Promotion", text mode (app.py 118-158)
UiFullPromotion ==
    /\ ~Busy
    /\ \E user_name \in UserNames, product_name \in ProductNames, cost \in CostTexts,
          product_details \in DetailTexts, uploaded \in UiImages :
          LET F == SaveUploaded(files, uploaded)
          IN  IF user_name = "" \/ product_name = "" \/ product_details = ""
              THEN Rejected("full_promotion", user_name, product_name, product_details, "", F)
              ELSE run_promotion_pipeline(TRUE, F, Strip(user_name), cost, CoerceCost(cost),
                                          Strip(product_name), Strip(product_details),
                                          uploaded, TRUE)
    /\ UNCHANGED <<sessions, posts, threads, audio, tool, caseInsensitiveEnv, apiKey,
                   users, products, reqs>>

\* app.py main, tab "Know Your Price", text mode (app.py 180-216)
UiPrice ==
    /\ ~Busy
    /\ \E user_name \in UserNames, product_name \in ProductNames,
          product_details \in DetailTexts :
          IF user_name = "" \/ product_name = "" \/ product_details = ""
          THEN Rejected("price_only", user_name, product_name, product_details, "", files)
          ELSE /\ run_price_generation_pipeline(TRUE, Strip(user_name), Strip(product_name),
                                                Strip(product_details))
               /\ files' = files
    /\ UNCHANGED <<sessions, posts, threads, audio, tool, caseInsensitiveEnv, apiKey,
                   users, products, reqs>>

\* app.py main, tab "Advertise Your Story", text mode (app.py 240-280)
UiStory ==
    /\ ~Busy
    /\ \E user_name \in UserNames, product_name \in ProductNames,
          product_details \in DetailTexts, user_story \in StoryTexts,
          uploaded \in UiImages :
          LET F == SaveUploaded(files, uploaded)
          IN  IF user_name = "" \/ product_name = "" \/ product_details = "" \/ user_story = ""
              THEN Rejected("story", user_name, product_name, product_details, user_story, F)
              ELSE run_story_advertising_pipeline(TRUE, F, Strip(user_name), Strip(user_story),
                                                  Strip(product_name), Strip(product_details),
                                                  uploaded, TRUE)
    /\ UNCHANGED <<sessions, posts, threads, audio, tool, caseInsensitiveEnv, apiKey,
                   users, products, reqs>>

\* main.py __main__, command "run": run_promotion_pipeline() with no inputs (main.py 299-300)
CliRun ==
    /\ ~Busy
    /\ run_promotion_pipeline(FALSE, files, "", "", 0, "", "", "", TRUE)
    /\ UNCHANGED <<sessions, posts, threads, audio, tool, caseInsensitiveEnv, apiKey,
                   users, products, reqs>>

\* a caller other than the forms calls run_promotion_pipeline with an image path
\* of its own, which may name no file (main.py 119)
CallPromotion ==
    /\ ~Busy
    /\ \E product_details \in DetailTexts \ {""}, cost \in {0, 12}, copyOk \in BOOLEAN :
          run_promotion_pipeline(FALSE, files, "alice", "", cost, "Mug", product_details,
                                 UploadedImage, copyOk)
    /\ UNCHANGED <<sessions, posts, threads, audio, tool, caseInsensitiveEnv, apiKey,
                   users, products, reqs>>

----------------------------------------------------------------------------
(* crew.kickoff: the steps of the selected chain, in order *)

\* a chain that goes on with its next step after a step has raised
CurrentStepAfterRaise ==
    IF run.phase \in {"running", "raised"} /\ run.pc <= Len(ChainOf(run.chain))
    THEN ChainOf(run.chain)[run.pc] ELSE "none"

CurrentStep ==
    IF run.phase = "running" /\ run.pc <= Len(ChainOf(run.chain))
    THEN ChainOf(run.chain)[run.pc] ELSE "none"

TextSteps == {"summary_generator", "caption_generation", "generate_imagen_prompt",
              "generate_veo_prompt", "price_analysis_task", "story_advertising_task"}

Advance(r) == [r EXCEPT !.pc = @ + 1]

Raise(r) == [r EXCEPT !.phase = "raised"]

\* a step that only asks the language model (crew.py 321-370)
TextStep ==
    /\ CurrentStep \in TextSteps
    /\ run' = Advance(run)
    /\ UNCHANGED <<sessions, posts, threads, audio, tool, caseInsensitiveEnv, apiKey, env,
                   files, users, products, calls, reqs>>

\* any step fails before it reaches an adapter; kickoff raises
StepRaises ==
    /\ CurrentStep # "none"
    /\ run' = Raise(run)
    /\ UNCHANGED <<sessions, posts, threads, audio, tool, caseInsensitiveEnv, apiKey, env,
                   files, users, products, calls, reqs>>

\* execute_image_generation: the image_executor agent calls generate_image_with_imagen
\* (crew.py 206-213, 355-361); the tool calls the image endpoint once and writes the
\* result to a fresh path, and fails when no credential is configured
execute_image_generation ==
    /\ CurrentStep = "execute_image_generation"
    /\ IF ~apiKey
       THEN /\ run' = Raise(run)
            /\ UNCHANGED <<calls, files>>
       ELSE /\ calls' = Append(calls, "generate_images")
            /\ \E ok \in BOOLEAN :
                  IF ok THEN /\ run' = Advance(run)
                             /\ files' = files \cup {GeneratedImagePath}
                        ELSE /\ run' = Raise(run)
                             /\ files' = files
    /\ UNCHANGED <<sessions, posts, threads, audio, tool, caseInsensitiveEnv, apiKey, env,
                   users, products, reqs>>

\* _create_fallback_video (img_tool.py 248-290): the path it returns
FallbackVideo(F, ffmpegOk) ==
    IF SampleVideoPath \in F \/ ffmpegOk THEN SampleVideoPath ELSE ""

\* _create_fallback_video: the files after it
FallbackFiles(F, ffmpegOk) ==
    IF ffmpegOk THEN F \cup {SampleVideoPath} ELSE F

\* generate_video_with_veo_simple (img_tool.py 125-246): the image it takes from the
\* environment, "" when it has to generate one
VeoSimpleUploaded(e, F) ==
    LET image_path == Getenv(e, "IMAGE_PATH", "")
    IN  IF image_path # "" /\ image_path \in F THEN image_path ELSE ""

\* execute_video_generation: the video_executor agent calls generate_video_with_veo_simple
\* (crew.py 258-265, 373-378; img_tool.py 125-246).  imagen and veo are the outcomes of
\* the external calls: generate_images returns an image, raises, returns none, or the
\* image cannot be saved; generate_videos raises, or the operation ends with a video,
\* without one (time-out, no video), or the poll or the download raises
execute_video_generation ==
    /\ CurrentStep = "execute_video_generation"
    /\ \E imagen \in {"ok", "raised", "no_images", "unsaved"},
          veo \in {"ok", "raised", "no_video", "download_raised"},
          ffmpegOk \in BOOLEAN :
          LET uploaded == VeoSimpleUploaded(env, files)
              generate == apiKey /\ uploaded = ""
              haveImage == apiKey /\ (uploaded # "" \/ imagen = "ok")
              \* line 181 copies the generated image before line 184 has written it:
              \* the fresh path names no file yet
              F1 == IF generate /\ imagen = "ok"
                    THEN CopyFiles(files \ {GeneratedImagePath}, GeneratedImagePath, TRUE)
                           \cup files \cup {GeneratedImagePath}
                    ELSE files
              generated_image_path == IF uploaded # "" THEN uploaded ELSE GeneratedImagePath
              veoOk == haveImage /\ veo = "ok"
          IN  /\ ~generate => imagen = "ok"
              /\ ~haveImage => veo = "ok"
              /\ veoOk => ffmpegOk
              /\ calls' = calls \o (IF generate THEN <<"generate_images">> ELSE <<>>)
                                \o (IF haveImage THEN <<"generate_videos">> ELSE <<>>)
              /\ files' = IF veoOk THEN F1 \cup {GeneratedVideoPath}
                          ELSE FallbackFiles(F1, ffmpegOk)
              /\ run' = [Advance(run) EXCEPT
                           !.video = IF veoOk THEN GeneratedVideoPath
                                     ELSE FallbackVideo(F1, ffmpegOk),
                           !.usedImage = IF haveImage THEN generated_image_path ELSE "",
                           !.absorbed = \/ (generate /\ imagen = "raised")
                                        \/ (haveImage /\ veo \in {"raised", "download_raised"})]
    /\ UNCHANGED <<sessions, posts, threads, audio, tool, caseInsensitiveEnv, apiKey, env,
                   users, products, reqs>>

\* telegram_channel_post_task and telegram_story_channel_post_task: the publisher agent
\* sends to the channel (crew.py 277-286, 298-307; telegram_tool.py 66-105)
PublishChannel ==
    /\ CurrentStep \in {"telegram_channel_post_task", "telegram_story_channel_post_task"}
    /\ calls' = Append(calls, "publish_channel")
    /\ \E ok \in BOOLEAN : run' = IF ok THEN Advance(run) ELSE Raise(run)
    /\ UNCHANGED <<sessions, posts, threads, audio, tool, caseInsensitiveEnv, apiKey, env,
                   files, users, products, reqs>>

\* telegram_story_task and telegram_story_story_post_task: the publisher agent posts
\* a story (crew.py 288-296, 309-318; telegram_tool.py 111-163)
PublishStory ==
    /\ CurrentStep \in {"telegram_story_task", "telegram_story_story_post_task"}
    /\ calls' = Append(calls, "publish_story")
    /\ \E ok \in BOOLEAN : run' = IF ok THEN Advance(run) ELSE Raise(run)
    /\ UNCHANGED <<sessions, posts, threads, audio, tool, caseInsensitiveEnv, apiKey, env,
                   files, users, products, reqs>>

\* the catalog write placed where it runs whether or not kickoff has returned
KickoffStarted == run.phase = "running"

\* crew.kickoff has returned: every step of the chain has run (main.py 162, 266)
KickoffReturned == run.phase = "running" /\ run.pc = Len(ChainOf(run.chain)) + 1

\* a finally block that deletes the media a full_promotion run has generated
CleanupDeletesMedia(kind, F) ==
    IF kind = "full_promotion"
    THEN F \ {GeneratedImagePath, GeneratedVideoPath, SampleVideoPath}
    ELSE F

\* the finally blocks of the pipeline functions (main.py 181-183, 284-286): pass;
\* the files of the run are preserved
Cleanup(kind, F) == F

\* main.py 166-177 and 270-280: the catalog write after kickoff, and the return
FinishRun ==
    /\ KickoffReturned
    /\ LET user_name == Strip(run.user)
           product_name == Strip(run.product)
           product_details == Strip(run.details)
           image_path == Getenv(env, "image_path", "")
           cost_val == IF run.kind = "story" THEN "0" ELSE Getenv(env, "cost", "0")
           write == /\ run.kind \in {"full_promotion", "story"}
                    /\ user_name # "" /\ product_name # "" /\ product_details # ""
       IN  /\ users' = IF write THEN AddProductUsers(users, user_name) ELSE users
           /\ products' = IF write
                          THEN AddProductProducts(users, products, user_name, product_name,
                                                  product_details, image_path, cost_val)
                          ELSE products
           /\ run' = [run EXCEPT !.phase = "returned", !.stored = write,
                          !.created = write /\ products' # products]
    /\ files' = Cleanup(run.kind, files)
    /\ UNCHANGED <<sessions, posts, threads, audio, tool, caseInsensitiveEnv, apiKey, env,
                   calls, reqs>>

\* the caller has the result or the error (app.py 147-158) and is ready for the next form
Return ==
    /\ run.phase \in {"returned", "raised", "rejected"}
    /\ run' = NoRun
    /\ calls' = <<>>
    /\ UNCHANGED <<sessions, posts, threads, audio, tool, caseInsensitiveEnv, apiKey, env,
                   files, users, products, reqs>>

----------------------------------------------------------------------------
(* app_shop.py: the storefront, and main.py's catalog write, as requests that *)
(* read and write shop.db each in its own session                           *)

\* the callers that can have a request in flight at the same time
Clients == {"c1", "c2"}

\* the one username of the requests: it differs from the default user "user" by case
ShopUsers    == {"User"}
ShopProducts == {"Mug"}
Offers       == {[details |-> "v1", price |-> "10"], [details |-> "v2", price |-> "12"]}
UploadFilenames == {"", "m.png"}
ApiImagePaths   == {"", UploadedImage}
StoredWebImages == {"", "uploads/a.png"}

\* who the session_id cookie of a request belongs to: "" for no cookie, "unknown"
\* for a session_id no user has (app_shop.py 1260-1265)
Callers == {"", "unknown", "user", "admin"}

IdleReq == [kind |-> "none", phase |-> "idle", outcome |-> "",
            username |-> "", name |-> "", details |-> "", price |-> "",
            image |-> "", image_path |-> "", uid |-> 0, found |-> 0, seen |-> "",
            caller |-> ""]

\* init_default_users (app_shop.py 604-620)
DefaultUsers ==
    {[id |-> 1, username |-> "admin", is_admin |-> TRUE],
     [id |-> 2, username |-> "user", is_admin |-> FALSE]}

\* f"{username}_{name}_{filename}" with the characters outside [A-Za-z0-9._-] dropped;
\* the modelled names hold none
SafeName(username, name, filename) == username \o "_" \o name \o "_" \o filename

\* IMAGES_DIR / name
ImagesPath(name) == "shop_data/uploads/" \o name

\* UPLOADS_WEB_DIR / name
UploadsWebPath(name) == "uploads/" \o name

\* the image_path a handler stores for the image of a request, "" for None
\* (app_shop.py 1130-1142, 1182-1190)
HandlerImagePath(kind, username, name, image, F) ==
    IF kind = "upload"
    THEN IF image # "" THEN SafeName(username, name, image) ELSE ""
    ELSE IF image # "" /\ image \in F THEN SafeName(username, name, Basename(image)) ELSE ""

\* the files after the handler has stored the image of a request
HandlerImageFiles(kind, username, name, image, F) ==
    LET n == HandlerImagePath(kind, username, name, image, F)
    IN  IF n = "" THEN F
        ELSE IF kind = "upload" THEN F \cup {ImagesPath(n), UploadsWebPath(n)}
        ELSE F \cup {UploadsWebPath(n)}

SetReq(c, r) == [reqs EXCEPT ![c] = r]

Finish(r, outcome) == [r EXCEPT !.phase = "done", !.outcome = outcome]

Fail(r, outcome) == [r EXCEPT !.phase = "error", !.outcome = outcome]

\* the handler up to and including its look-ups (app_shop.py 1123-1145, 1177-1193):
\* the user is found, the image is stored and the product is looked up; or the user
\* is missing and has to be inserted first
UpsertLookup(c, kind, username, name, details, price, image) ==
    LET r0 == [IdleReq EXCEPT !.kind = kind, !.username = username, !.name = name,
                   !.details = details, !.price = price, !.image = image]
        found_users == UsersNamed(users, username)
    IN  IF found_users = {}
        THEN /\ reqs' = SetReq(c, [r0 EXCEPT !.phase = "flush"])
             /\ files' = files
        ELSE LET user == CHOOSE u \in found_users : TRUE
                 existing == ProductsOf(products, user.id, name)
             IN  /\ files' = HandlerImageFiles(kind, username, name, image, files)
                 /\ reqs' = SetReq(c,
                      [r0 EXCEPT !.phase = "commit", !.uid = user.id,
                           !.image_path = HandlerImagePath(kind, username, name, image, files),
                           !.found = IF existing = {} THEN 0
                                     ELSE (CHOOSE p \in existing : TRUE).id,
                           !.seen = IF existing = {} THEN ""
                                    ELSE (CHOOSE p \in existing : TRUE).details])

\* POST /upload (app_shop.py 1114-1165), up to the look-up of the product
upload_product(c) ==
    /\ reqs[c].phase = "idle"
    /\ \E username \in ShopUsers, name \in ShopProducts, o \in Offers,
          image \in UploadFilenames :
          UpsertLookup(c, "upload", username, name, o.details, o.price, image)
    /\ UNCHANGED <<sessions, posts, threads, audio, tool, caseInsensitiveEnv, apiKey, env,
                   users, products, run, calls>>

\* POST /api/products (app_shop.py 1167-1211), up to the look-up of the product
api_upload_product(c) ==
    /\ reqs[c].phase = "idle"
    /\ \E username \in ShopUsers, name \in ShopProducts, o \in Offers,
          image_path \in ApiImagePaths :
          UpsertLookup(c, "api", username, name, o.details, o.price, image_path)
    /\ UNCHANGED <<sessions, posts, threads, audio, tool, caseInsensitiveEnv, apiKey, env,
                   users, products, run, calls>>

\* db.add(user); db.flush() and the rest of the handler, in the write transaction the
\* flush opens (app_shop.py 1125-1163, 1179-1210): the new user has no product yet
upload_flush(c) ==
    LET r == reqs[c]
        U2 == InsertUser(users, r.username)
        uid == NewId(users)
        image_path == HandlerImagePath(r.kind, r.username, r.name, r.image, files)
        existing == ProductsOf(products, uid, r.name)
    IN  /\ r.phase = "flush"
        /\ IF UsernameTaken(users, r.username)
           THEN /\ reqs' = SetReq(c, Fail(r, "username_taken"))
                /\ UNCHANGED <<users, products, files>>
           ELSE IF existing = {} /\ ~UniqueUserProduct(products, uid, r.name)
           THEN /\ reqs' = SetReq(c, Fail(r, "duplicate"))
                /\ files' = HandlerImageFiles(r.kind, r.username, r.name, r.image, files)
                /\ UNCHANGED <<users, products>>
           ELSE /\ users' = U2
                /\ files' = HandlerImageFiles(r.kind, r.username, r.name, r.image, files)
                /\ products' =
                     IF existing # {}
                     THEN UpdateProduct(products, (CHOOSE p \in existing : TRUE).id,
                                        r.details, r.price, image_path)
                     ELSE InsertProduct(products, r.name, r.details, r.price, image_path, uid)
                /\ reqs' = SetReq(c, [Finish(r, IF existing # {} THEN "updated" ELSE "created")
                                        EXCEPT !.uid = uid, !.image_path = image_path])
        /\ UNCHANGED <<sessions, posts, threads, audio, tool, caseInsensitiveEnv, apiKey,
                       env, run, calls>>

\* the branch on existing, and db.commit() (app_shop.py 1146-1163, 1194-1210): the
\* UPDATE names the row by its id and fails when no row has it; the INSERT fails when
\* the pair is taken
upload_commit(c) ==
    LET r == reqs[c]
    IN  /\ r.phase = "commit"
        /\ IF r.found # 0
           THEN IF \E p \in products : p.id = r.found
                THEN /\ products' = UpdateProduct(products, r.found, r.details, r.price,
                                                  r.image_path)
                     /\ reqs' = SetReq(c, Finish(r, "updated"))
                ELSE /\ products' = products
                     /\ reqs' = SetReq(c, Fail(r, "stale"))
           ELSE IF UniqueUserProduct(products, r.uid, r.name)
                THEN /\ products' = InsertProduct(products, r.name, r.details, r.price,
                                                  r.image_path, r.uid)
                     /\ reqs' = SetReq(c, Finish(r, "created"))
                ELSE /\ products' = products
                     /\ reqs' = SetReq(c, Fail(r, "duplicate"))
        /\ UNCHANGED <<sessions, posts, threads, audio, tool, caseInsensitiveEnv, apiKey,
                       env, files, users, run, calls>>

\* add_product_to_website (main.py 40-117), called by a pipeline process: the look-up
\* of the user (main.py 82)
add_product_to_website(c) ==
    /\ reqs[c].phase = "idle"
    /\ \E user_name \in ShopUsers, product_name \in ShopProducts, o \in Offers,
          image_path \in StoredWebImages :
          LET r0 == [IdleReq EXCEPT !.kind = "add_product", !.username = user_name,
                         !.name = product_name, !.details = o.details, !.price = o.price,
                         !.image = image_path,
                         !.image_path = IF image_path # "" THEN Basename(image_path) ELSE ""]
              found_users == UsersNamed(users, user_name)
          IN  reqs' = SetReq(c,
                IF found_users = {} THEN [r0 EXCEPT !.phase = "add_user"]
                ELSE [r0 EXCEPT !.phase = "add_lookup",
                          !.uid = (CHOOSE u \in found_users : TRUE).id])
    /\ UNCHANGED <<sessions, posts, threads, audio, tool, caseInsensitiveEnv, apiKey, env,
                   files, users, products, run, calls>>

\* db.add(user); db.commit() (main.py 84-88); an error ends the function (main.py 116)
add_product_commit_user(c) ==
    LET r == reqs[c]
    IN  /\ r.phase = "add_user"
        /\ IF UsernameTaken(users, r.username)
           THEN /\ users' = users
                /\ reqs' = SetReq(c, Finish(r, "failed"))
           ELSE /\ users' = InsertUser(users, r.username)
                /\ reqs' = SetReq(c, [r EXCEPT !.phase = "add_lookup", !.uid = NewId(users)])
        /\ UNCHANGED <<sessions, posts, threads, audio, tool, caseInsensitiveEnv, apiKey,
                       env, files, products, run, calls>>

\* the look-up of the product; an existing one is left as it is (main.py 91-99)
add_product_lookup(c) ==
    LET r == reqs[c]
        existing == ProductsOf(products, r.uid, r.name)
    IN  /\ r.phase = "add_lookup"
        /\ reqs' = SetReq(c,
             IF existing # {}
             THEN [Finish(r, "skipped") EXCEPT !.found = (CHOOSE p \in existing : TRUE).id,
                                               !.seen = (CHOOSE p \in existing : TRUE).details]
             ELSE [r EXCEPT !.phase = "add_insert"])
        /\ UNCHANGED <<sessions, posts, threads, audio, tool, caseInsensitiveEnv, apiKey,
                       env, files, users, products, run, calls>>

\* db.add(product); db.commit() (main.py 101-112); an error ends the function
add_product_commit(c) ==
    LET r == reqs[c]
    IN  /\ r.phase = "add_insert"
        /\ IF UniqueUserProduct(products, r.uid, r.name)
           THEN /\ products' = InsertProduct(products, r.name, r.details, r.price,
                                             r.image_path, r.uid)
                /\ reqs' = SetReq(c, Finish(r, "created"))
           ELSE /\ products' = products
                /\ reqs' = SetReq(c, Finish(r, "failed"))
        /\ UNCHANGED <<sessions, posts, threads, audio, tool, caseInsensitiveEnv, apiKey,
                       env, files, users, run, calls>>

\* POST /admin/products/{product_id}/delete (app_shop.py 1247-1257), up to db.delete:
\* the look-up of the row and the removal of its image file; the handler takes
\* product_id and db, and nothing of the caller
delete_product(c) ==
    /\ reqs[c].phase = "idle"
    /\ \E product_id \in {p.id : p \in products} \cup {NewId(products)},
          caller \in Callers :
          LET product == {p \in products : p.id = product_id}
              r0 == [IdleReq EXCEPT !.kind = "delete_product", !.caller = caller]
          IN  IF product = {}
              THEN /\ reqs' = SetReq(c, Finish(r0, "not_found"))
                   /\ files' = files
              ELSE LET p == CHOOSE q \in product : TRUE
                   IN  /\ reqs' = SetReq(c, [r0 EXCEPT !.phase = "delete", !.found = p.id,
                                                 !.uid = p.user_id, !.name = p.name])
                       /\ files' = IF p.image_path # ""
                                   THEN files \ {UploadsWebPath(p.image_path)}
                                   ELSE files
    /\ UNCHANGED <<sessions, posts, threads, audio, tool, caseInsensitiveEnv, apiKey, env,
                   users, products, run, calls>>

\* db.delete(product); db.commit() (app_shop.py 1254-1255): DELETE ... WHERE id = ?
delete_commit(c) ==
    LET r == reqs[c]
    IN  /\ r.phase = "delete"
        /\ products' = {p \in products : p.id # r.found}
        /\ reqs' = SetReq(c, Finish(r, "deleted"))
        /\ UNCHANGED <<sessions, posts, threads, audio, tool, caseInsensitiveEnv, apiKey,
                       env, files, users, run, calls>>

\* the response is sent and the session closed (app_shop.py 623-628)
Respond(c) ==
    /\ reqs[c].phase \in {"done", "error"}
    /\ reqs' = SetReq(c, IdleReq)
    /\ UNCHANGED <<sessions, posts, threads, audio, tool, caseInsensitiveEnv, apiKey, env,
                   files, users, products, run, calls>>

----------------------------------------------------------------------------
(* app_shop.py: sessions, the admin's deletion of users, and the start of   *)
(* the storefront on the shop.db it finds                                   *)

\* the most session ids the model lets login_user issue
MaxLogins == 2

\* the ids a user row can have in the model
UserIds == 1..4

\* db: column session_id by user id, 0 for NULL; issued: the session ids issued so
\* far, 1..issued; retired: the session ids whose holder has logged out since;
\* seen: the session id the last request presented, the user get_current_user
\* found for it (0 for None) and whether the request was refused
NoSessions == [db |-> [i \in UserIds |-> 0], issued |-> 0, retired |-> {},
               seen |-> [token |-> 0, user |-> 0, status |-> 0]]

\* init_default_users (app_shop.py 604-620) on the users table it finds
init_default_users(U) ==
    LET U1 == IF UsersNamed(U, "admin") = {}
              THEN U \cup {[id |-> NewId(U), username |-> "admin", is_admin |-> TRUE]}
              ELSE U
    IN  IF UsersNamed(U1, "user") = {}
        THEN U1 \cup {[id |-> NewId(U1), username |-> "user", is_admin |-> FALSE]}
        ELSE U1

\* the users the login form is tried with
LoginNames == {"admin", "user"}

\* GET /logout (app_shop.py 1009-1013): the response deletes the cookie of the
\* browser; the handler takes no db and writes nothing
logout_response(S, token) ==
    [S EXCEPT !.retired = @ \cup {token}, !.seen = NoSessions.seen]

\* get_current_user (app_shop.py 132-139, 1260-1265): the id of the user whose
\* session_id is the cookie of the request, 0 for None
get_current_user(U, S, token) ==
    IF token = 0 THEN 0
    ELSE IF \E u \in U : S.db[u.id] = token
         THEN (CHOOSE u \in U : S.db[u.id] = token).id
         ELSE 0

\* POST /login (app_shop.py 1058-1087): a new session id for the user whose
\* password matches, otherwise the form again
login_user ==
    /\ sessions.issued < MaxLogins
    /\ \E username \in LoginNames, passwordOk \in BOOLEAN :
          LET found == UsersNamed(users, username)
              session_id == sessions.issued + 1
          IN  /\ found # {} /\ passwordOk
              /\ sessions' = [sessions EXCEPT
                     !.db[(CHOOSE u \in found : TRUE).id] = session_id,
                     !.issued = session_id]
    /\ UNCHANGED <<posts, threads, audio, tool, caseInsensitiveEnv, apiKey, env, files,
                   users, products, run, calls, reqs>>

\* GET /logout by the holder of a session id
logout ==
    /\ \E token \in 1..sessions.issued :
          /\ token \notin sessions.retired
          /\ sessions' = logout_response(sessions, token)
    /\ UNCHANGED <<posts, threads, audio, tool, caseInsensitiveEnv, apiKey, env, files,
                   users, products, run, calls, reqs>>

\* GET / (app_shop.py 1015-1027), or any page that depends on get_current_user, by
\* a request that presents a session id, or none
homepage ==
    /\ \E token \in 0..sessions.issued :
          sessions' = [sessions EXCEPT
             !.seen = [token |-> token,
                       user |-> get_current_user(users, sessions, token),
                       status |-> 200]]
    /\ UNCHANGED <<posts, threads, audio, tool, caseInsensitiveEnv, apiKey, env, files,
                   users, products, run, calls, reqs>>

\* POST /admin/users/{user_id}/delete (app_shop.py 1281-1303)
delete_user ==
    /\ \E token \in 0..sessions.issued, user_id \in {u.id : u \in users} :
          LET current_user == get_current_user(users, sessions, token)
              admin == \E u \in users : u.id = current_user /\ u.is_admin
              user == CHOOSE u \in users : u.id = user_id
              owned == {p \in products : p.user_id = user_id}
              seen(status) == [token |-> token, user |-> current_user, status |-> status]
          IN  IF ~admin
              THEN /\ sessions' = [sessions EXCEPT !.seen = seen(403)]
                   /\ UNCHANGED <<users, products, files>>
              ELSE IF user.is_admin
              THEN /\ sessions' = [sessions EXCEPT !.seen = seen(400)]
                   /\ UNCHANGED <<users, products, files>>
              ELSE /\ files' = files \ {UploadsWebPath(p.image_path) :
                                           p \in {q \in owned : q.image_path # ""}}
                   /\ products' = products \ owned
                   /\ users' = users \ {user}
                   /\ sessions' = [sessions EXCEPT !.seen = seen(303),
                                                   !.db[user_id] = 0]
    /\ UNCHANGED <<posts, threads, audio, tool, caseInsensitiveEnv, apiKey, env, run,
                   calls, reqs>>

----------------------------------------------------------------------------
(* The video tools called on their own: VeoVideoGenerator._run (custom_tool.py), *)
(* generate_video_with_veo and generate_video_with_veo_simple (img_tool.py)  *)

\* the most status reads on which a finite operation reports not-done
MaxNotDone == 3

\* the polls the model follows of a loop that has no limit of its own
MaxPolls == 95

\* float(os.getenv("VEO_POLL_INTERVAL_SECONDS", "10"))
VEO_POLL_INTERVAL_SECONDS == 10

\* int(os.getenv("VEO_TIMEOUT_SECONDS", "900"))
VEO_TIMEOUT_SECONDS == 900

\* max_wait = 300
max_wait == 300

\* time.sleep(10)
SleepSeconds == 10

Entries == {"VeoVideoGenerator._run", "generate_video_with_veo",
            "generate_video_with_veo_simple"}

MissingImage == "images/missing.png"

ToolImagePaths == {"", UploadedImage, MissingImage}

IdleTool == [entry |-> "none", pc |-> "idle", image_path |-> "",
             notDone |-> 0, never |-> FALSE,
             reads |-> 0, sleeps |-> 0, polls |-> 0, elapsed |-> 0,
             exit |-> "", result |-> ""]

\* getattr(operation, "done", False) of the operation object the tool holds: the
\* external operation reports not-done on its first notDone reads, or never ends
OperationDone(t) == ~t.never /\ t.reads > t.notDone

\* the tool ends with an exception of the given kind
ToolRaise(t, kind) == [t EXCEPT !.pc = "done", !.result = kind]

\* generate_video_with_veo_simple returns [_create_fallback_video(), ...]
ToolFallback(t) == [t EXCEPT !.pc = "done", !.result = "fallback"]

\* what an exception of an external call becomes: the simple tool catches it
\* (img_tool.py 244-246), the other two let it through
ToolExternalError(t) ==
    IF t.entry = "generate_video_with_veo_simple" THEN ToolFallback(t)
    ELSE ToolRaise(t, "error")

\* a caller invokes one of the tools; the simple tool takes its image path from
\* IMAGE_PATH (img_tool.py 146)
ToolCall ==
    /\ tool.pc = "idle"
    /\ \E entry \in Entries, image_path \in ToolImagePaths,
          n \in 0..MaxNotDone, never \in BOOLEAN :
          tool' = [IdleTool EXCEPT !.entry = entry, !.pc = "start",
                       !.image_path = image_path,
                       !.notDone = IF never THEN 0 ELSE n, !.never = never]
    /\ calls' = <<>>
    /\ UNCHANGED <<sessions, posts, threads, audio, caseInsensitiveEnv, apiKey, env, files,
                   users, products, run, reqs>>

\* the credential check and the image of the video (custom_tool.py 78-103,
\* img_tool.py 54-89, 134-190)
ToolPrepareImage ==
    /\ tool.pc = "start"
    /\ \E imagen \in {"ok", "raised", "no_images", "unsaved"}, uploadOk \in BOOLEAN,
          ffmpegOk \in BOOLEAN :
          LET simple == tool.entry = "generate_video_with_veo_simple"
              custom == tool.entry = "VeoVideoGenerator._run"
              exists == tool.image_path # "" /\ tool.image_path \in files
              upload == custom /\ apiKey /\ exists
              notFound == custom /\ apiKey /\ tool.image_path # "" /\ ~exists
              generate == apiKey /\ ~notFound
                          /\ (IF custom THEN tool.image_path = "" ELSE ~exists)
              next == [tool EXCEPT !.pc = "generate"]
          IN  /\ ~generate => imagen = "ok"
              /\ (imagen = "unsaved") => simple
              /\ ~upload => uploadOk
              /\ (simple /\ (~apiKey \/ (generate /\ imagen # "ok"))) \/ ~ffmpegOk
              /\ calls' = IF upload THEN <<"upload">>
                          ELSE IF generate THEN <<"generate_images">> ELSE <<>>
              /\ tool' =
                   IF ~apiKey THEN (IF simple THEN ToolFallback(tool)
                                    ELSE ToolRaise(tool, "ValueError"))
                   ELSE IF notFound THEN ToolRaise(tool, "FileNotFoundError")
                   ELSE IF upload /\ ~uploadOk THEN ToolRaise(tool, "error")
                   ELSE IF generate /\ imagen = "raised" THEN ToolExternalError(tool)
                   ELSE IF generate /\ imagen = "no_images"
                        THEN (IF simple THEN ToolFallback(tool)
                              ELSE ToolRaise(tool, "RuntimeError"))
                   ELSE IF generate /\ imagen = "unsaved" THEN ToolFallback(tool)
                   ELSE next
              /\ files' =
                   LET F1 == IF simple /\ generate /\ imagen = "ok"
                             THEN files \cup {GeneratedImagePath} ELSE files
                   IN  IF simple /\ (~apiKey \/ (generate /\ imagen # "ok"))
                       THEN FallbackFiles(F1, ffmpegOk) ELSE F1
    /\ UNCHANGED <<sessions, posts, threads, audio, caseInsensitiveEnv, apiKey, env, users,
                   products, run, reqs>>

\* client.models.generate_videos (custom_tool.py 106-110, img_tool.py 91-95, 194-198):
\* the operation it returns is the first status read
ToolGenerateVideos ==
    /\ tool.pc = "generate"
    /\ calls' = Append(calls, "generate_videos")
    /\ \E ok \in BOOLEAN, ffmpegOk \in BOOLEAN :
          /\ (ok \/ tool.entry # "generate_video_with_veo_simple") => ffmpegOk
          /\ tool' = IF ok THEN [tool EXCEPT !.pc = "polling", !.reads = 1]
                     ELSE ToolExternalError(tool)
          /\ files' = IF ok THEN files ELSE FallbackFiles(files, ffmpegOk)
    /\ UNCHANGED <<sessions, posts, threads, audio, caseInsensitiveEnv, apiKey, env, users,
                   products, run, reqs>>

\* a loop that tests its condition only after the first poll
KeepPollingAfterFirstPoll(t) ==
    /\ t.polls = 0 \/ ~OperationDone(t)
    /\ t.entry = "generate_video_with_veo_simple" => t.elapsed < max_wait

\* the condition of the polling loop (custom_tool.py 116, img_tool.py 97, 204)
KeepPolling(t) ==
    /\ ~OperationDone(t)
    /\ t.entry = "generate_video_with_veo_simple" => t.elapsed < max_wait

\* one iteration of the polling loop (custom_tool.py 116-120, img_tool.py 97-99,
\* 204-212): the time-out test of VeoVideoGenerator._run, the sleep and the poll
ToolPoll ==
    /\ tool.pc = "polling" /\ tool.exit = ""
    /\ KeepPolling(tool)
    /\ tool.polls < MaxPolls
    /\ IF tool.entry = "VeoVideoGenerator._run" /\ tool.elapsed > VEO_TIMEOUT_SECONDS
       THEN tool' = [ToolRaise(tool, "TimeoutError") EXCEPT !.exit = "timeout"]
       ELSE LET slept == [tool EXCEPT
                            !.sleeps = @ + 1,
                            !.elapsed = @ + (IF tool.entry = "VeoVideoGenerator._run"
                                             THEN VEO_POLL_INTERVAL_SECONDS
                                             ELSE SleepSeconds)]
            IN  \E ok \in BOOLEAN :
                   tool' = IF ok THEN [slept EXCEPT !.polls = @ + 1, !.reads = @ + 1]
                           ELSE IF tool.entry = "generate_video_with_veo_simple"
                           THEN [slept EXCEPT !.polls = @ + 1, !.exit = "poll_error"]
                           ELSE [ToolRaise(slept, "error") EXCEPT !.polls = @ + 1,
                                                                 !.exit = "poll_error"]
    /\ UNCHANGED <<sessions, posts, threads, audio, caseInsensitiveEnv, apiKey, env, files,
                   users, products, run, calls, reqs>>

\* after the loop (custom_tool.py 122-135, img_tool.py 101-122, 214-242): the video
\* of the operation is downloaded, or the tool fails or falls back
ToolFinish ==
    /\ tool.pc = "polling"
    /\ tool.exit # "" \/ ~KeepPolling(tool)
    /\ \E outcome \in {"ok", "no_video", "download_raised"}, ffmpegOk \in BOOLEAN :
          LET simple == tool.entry = "generate_video_with_veo_simple"
              done == OperationDone(tool)
              exit == IF tool.exit # "" THEN tool.exit
                      ELSE IF done THEN "done" ELSE "timeout"
              video == done /\ outcome = "ok"
              t1 == [tool EXCEPT !.exit = exit]
          IN  /\ ~done => outcome = "ok"
              /\ (video \/ ~simple) => ffmpegOk
              /\ tool' = IF video THEN [t1 EXCEPT !.pc = "done", !.result = "video"]
                         ELSE IF simple THEN ToolFallback(t1)
                         ELSE IF outcome = "no_video" /\ tool.entry = "VeoVideoGenerator._run"
                              THEN ToolRaise(t1, "RuntimeError")
                         ELSE ToolRaise(t1, "error")
              /\ files' = IF video THEN files \cup {GeneratedVideoPath}
                          ELSE IF simple THEN FallbackFiles(files, ffmpegOk)
                          ELSE files
    /\ UNCHANGED <<sessions, posts, threads, audio, caseInsensitiveEnv, apiKey, env, users,
                   products, run, calls, reqs>>

\* the caller has the result or the exception
ToolReturn ==
    /\ tool.pc = "done"
    /\ tool' = IdleTool
    /\ calls' = <<>>
    /\ UNCHANGED <<sessions, posts, threads, audio, caseInsensitiveEnv, apiKey, env, files,
                   users, products, run, reqs>>

----------------------------------------------------------------------------
(* The audio mode of the forms: transcribe_speech (speech_tool.py) and the  *)
(* branch of app.py on its result                                           *)

\* what the speaker says; one note begins with the word Error
SpokenTexts == {"v1", "Error codes on the mug"}

\* tclient.translate(text, target_language="en")["translatedText"]
Translated(text) == IF text = "v1" THEN "v1 in English" ELSE text

\* the transcription and the text fields still to come
IdleAudio == [pc |-> "idle", form |-> "none", text |-> "",
              speech |-> TRUE, exists |-> TRUE, recognition |-> "text"]

\* str.startswith("Error")
StartsWithError(s) == Len(s) >= 5 /\ SubSeq(s, 1, 5) = "Error"

\* a transcribe_speech that lets the exception of client.recognize through
transcribe_speech_unguarded(speech, translate, exists, recognition, spoken, en, translation) ==
    IF ~speech THEN "Error: google-cloud-speech is not installed or failed to import."
    ELSE IF ~exists THEN "Error: audio file not found."
    ELSE IF recognition = "raised" THEN "Traceback: recognize failed"
    ELSE LET text == IF recognition = "none" THEN "" ELSE spoken
         IN  IF en /\ text # ""
             THEN IF ~translate THEN "Error: google-cloud-translate is not installed."
                  ELSE IF translation = "raised" THEN "Error during translation: te"
                  ELSE Translated(text)
             ELSE text

\* transcribe_speech (speech_tool.py 28-83): the string it returns; speech and
\* translate tell whether the two modules were imported, exists whether the audio
\* file is there, recognition and translation how the two external calls end, en
\* is translate_to_english
transcribe_speech(speech, translate, exists, recognition, spoken, en, translation) ==
    IF ~speech THEN "Error: google-cloud-speech is not installed or failed to import."
    ELSE IF ~exists THEN "Error: audio file not found."
    ELSE IF recognition = "raised" THEN "Error during transcription: e"
    ELSE LET text == IF recognition = "none" THEN "" ELSE spoken
         IN  IF en /\ text # ""
             THEN IF ~translate THEN "Error: google-cloud-translate is not installed."
                  ELSE IF translation = "raised" THEN "Error during translation: te"
                  ELSE Translated(text)
             ELSE text

\* a form submitted in Audio mode, up to the return of transcribe_speech (app.py
\* 120-127, 183-189, 243-249); the two modules are imported together or not at all
\* (speech_tool.py 4-9)
UiAudioTranscribe ==
    /\ ~Busy /\ audio.pc = "idle"
    /\ \E form \in {"full_promotion", "price_only", "story"}, speech \in BOOLEAN,
          exists \in BOOLEAN, recognition \in {"raised", "none", "text"},
          spoken \in SpokenTexts, translation \in {"ok", "raised"} :
          /\ (~speech \/ ~exists \/ recognition # "text")
                => (spoken = "v1" /\ translation = "ok")
          /\ audio' = [pc |-> "transcribed", form |-> form,
                       text |-> transcribe_speech(speech, speech, exists, recognition,
                                                  spoken, TRUE, translation),
                       speech |-> speech, exists |-> exists, recognition |-> recognition]
    /\ UNCHANGED <<sessions, posts, threads, tool, caseInsensitiveEnv, apiKey, env, files,
                   users, products, run, calls, reqs>>

\* the branch on the transcription and the rest of the handler (app.py 128-158,
\* 190-216, 250-280): st.error and return, or the check of the fields and the call
\* of the pipeline with the transcription as details or story
UiAudioReceive ==
    /\ ~Busy /\ audio.pc = "transcribed"
    /\ IF audio.text = "" \/ StartsWithError(audio.text)
       THEN /\ audio' = [audio EXCEPT !.pc = "reported"]
            /\ UNCHANGED <<env, files, run, calls>>
       ELSE /\ audio' = [audio EXCEPT !.pc = "started"]
            /\ \E user_name \in {"", "alice"}, cost \in {"50"} :
                  LET product_name == "Mug"
                      text == audio.text
                  IN  CASE audio.form = "full_promotion" ->
                             IF user_name = ""
                             THEN Rejected("full_promotion", user_name, product_name, text,
                                           "", files)
                             ELSE run_promotion_pipeline(TRUE, files, Strip(user_name), cost,
                                      CoerceCost(cost), Strip(product_name), Strip(text),
                                      "", TRUE)
                        [] audio.form = "price_only" ->
                             IF user_name = ""
                             THEN Rejected("price_only", user_name, product_name, text, "",
                                           files)
                             ELSE /\ run_price_generation_pipeline(TRUE, Strip(user_name),
                                         Strip(product_name), Strip(text))
                                  /\ files' = files
                        [] OTHER ->
                             IF user_name = ""
                             THEN Rejected("story", user_name, product_name, "v1", text, files)
                             ELSE run_story_advertising_pipeline(TRUE, files,
                                      Strip(user_name), Strip(text), Strip(product_name),
                                      "v1", "", TRUE)
    /\ UNCHANGED <<sessions, posts, threads, tool, caseInsensitiveEnv, apiKey, users,
                   products, reqs>>

\* the handler has returned and the form is shown again
UiAudioDone ==
    /\ ~Busy /\ audio.pc \in {"reported", "started"}
    /\ audio' = IdleAudio
    /\ UNCHANGED <<sessions, posts, threads, tool, caseInsensitiveEnv, apiKey, env, files,
                   users, products, run, calls, reqs>>

----------------------------------------------------------------------------
(* run_promotion_pipeline (main.py 119-183) called by two threads of one   *)
(* process, statement group by statement group                             *)

Threads == {"t1", "t2"}

\* the inputs of the requests the two threads serve
Requests ==
    {[user |-> "alice", product |-> "Mug", details |-> "v1", cost |-> 50, img |-> ""],
     [user |-> "bob", product |-> "Vase", details |-> "v2", cost |-> 12,
      img |-> UploadedImage]}

IdleThread == [pc |-> "idle", user |-> "", product |-> "", details |-> "", cost |-> 0,
               img |-> "", own |-> EnvInit, crew |-> NoCrew, chain |-> "none"]

NoThreads == [t \in Threads |-> IdleThread]

\* an environment private to each thread: what its own writes alone have left
ThreadLocalEnv(t, e) == threads[t].own

\* os.environ as thread t reads it: the one mapping of the process
ProcessEnv(t, e) == e

\* main.py 130-151: the thread stores the inputs of its request in os.environ
ThreadSetEnv(t) ==
    /\ threads[t].pc = "idle"
    /\ \E r \in Requests, copyOk \in BOOLEAN :
          LET e2 == PromotionEnv(env, files, r.user, r.cost, r.product, r.details, r.img,
                                 copyOk)
          IN  /\ env' = e2
              /\ files' = CopyFiles(files, Strip(r.img), copyOk)
              /\ threads' = [threads EXCEPT ![t] =
                     [IdleThread EXCEPT !.pc = "env", !.user = r.user, !.product = r.product,
                          !.details = r.details, !.cost = r.cost, !.img = r.img,
                          !.own = PromotionEnv(EnvInit, files, r.user, r.cost, r.product,
                                               r.details, r.img, copyOk)]]
    /\ UNCHANGED <<sessions, posts, audio, tool, caseInsensitiveEnv, apiKey, users, products,
                   run, calls, reqs>>

\* main.py 154-158: SocialMediaPromotion() reads os.environ (crew.py 139-148) and the
\* chain is selected
ThreadBuildCrew(t) ==
    /\ threads[t].pc = "env"
    /\ threads' = [threads EXCEPT ![t] =
           [@ EXCEPT !.pc = "kickoff", !.crew = CrewInit(ProcessEnv(t, env)),
                     !.chain = SelectChain(threads[t].img, ProcessEnv(t, env))]]
    /\ UNCHANGED <<sessions, posts, audio, tool, caseInsensitiveEnv, apiKey, env, files,
                   users, products, run, calls, reqs>>

\* main.py 159-164, 178-180: kickoff returns, or raises and the call ends
ThreadKickoff(t) ==
    /\ threads[t].pc = "kickoff"
    /\ \E ok \in BOOLEAN :
          threads' = [threads EXCEPT ![t].pc = IF ok THEN "returned" ELSE "raised"]
    /\ UNCHANGED <<sessions, posts, audio, tool, caseInsensitiveEnv, apiKey, env, files,
                   users, products, run, calls, reqs>>

\* main.py 167-175: the catalog write, with image_path and cost read from os.environ
ThreadStore(t) ==
    /\ threads[t].pc = "returned"
    /\ LET th == threads[t]
           image_path == Getenv(ProcessEnv(t, env), "image_path", "")
           cost_val == Getenv(ProcessEnv(t, env), "cost", "0")
       IN  /\ users' = AddProductUsers(users, th.user)
           /\ products' = AddProductProducts(users, products, th.user, th.product,
                                             th.details, image_path, cost_val)
    /\ threads' = [threads EXCEPT ![t].pc = "done"]
    /\ UNCHANGED <<sessions, posts, audio, tool, caseInsensitiveEnv, apiKey, env, files,
                   run, calls, reqs>>

\* the call has ended and the thread waits for its next request
ThreadReturn(t) ==
    /\ threads[t].pc \in {"done", "raised"}
    /\ threads' = [threads EXCEPT ![t] = IdleThread]
    /\ UNCHANGED <<sessions, posts, audio, tool, caseInsensitiveEnv, apiKey, env, files,
                   users, products, run, calls, reqs>>

----------------------------------------------------------------------------
(* post_photo_story_as_user and post_video_story_as_user (telegram_tool.py *)
(* 111-163) called by two threads of one process                           *)

StoryKinds == {"photo", "video"}

\* the media files the callers pass
StoryMedia == {"media_a", "media_b"}

IdlePost == [pc |-> "idle", kind |-> "none", input |-> "", uploaded |-> "",
             posted |-> FALSE, result |-> ""]

\* businessConnection: BUSINESS_CONNECTION_ID is set (telegram_tool.py 13);
\* temp: what processed_story_{pid}.jpg and processed_story_{pid}.mp4 hold, "" for
\* a file that does not exist, otherwise the input the content was processed from
NoPosts == [businessConnection |-> TRUE,
            temp |-> [k \in StoryKinds |-> ""],
            calls |-> [t \in Threads |-> IdlePost]]

SetPost(t, c) == [posts.calls EXCEPT ![t] = c]

\* a finally block that leaves the file where it is
KeepTemp(T, kind) == T

\* os.remove(processed_image_path), os.remove(processed_video_path)
RemoveTemp(T, kind) == [T EXCEPT ![kind] = ""]

\* the call and its check of BUSINESS_CONNECTION_ID (telegram_tool.py 119, 145)
PostStoryCall(t) ==
    /\ posts.calls[t].pc = "idle"
    /\ \E kind \in StoryKinds, input \in StoryMedia :
          LET c == [IdlePost EXCEPT !.kind = kind, !.input = input]
          IN  posts' = [posts EXCEPT !.calls = SetPost(t,
                 IF posts.businessConnection THEN [c EXCEPT !.pc = "process"]
                 ELSE [c EXCEPT !.pc = "ended", !.result = "ValueError"])]
    /\ UNCHANGED <<sessions, threads, audio, tool, caseInsensitiveEnv, apiKey, env, files,
                   users, products, run, calls, reqs>>

\* _fit_image_for_story, _process_video_for_story (telegram_tool.py 123, 149-150):
\* the processed file is written; a failure raises for a photo and returns the
\* processing-failed result for a video, with or without a partial file written
PostStoryProcess(t) ==
    LET c == posts.calls[t]
    IN  /\ c.pc = "process"
        /\ \E outcome \in {"ok", "failed", "failed_partial"} :
              posts' = [posts EXCEPT
                 !.temp = IF outcome = "failed" THEN @ ELSE [@ EXCEPT ![c.kind] = c.input],
                 !.calls = SetPost(t,
                    IF outcome = "ok" THEN [c EXCEPT !.pc = "upload"]
                    ELSE [c EXCEPT !.pc = "finally",
                               !.result = IF c.kind = "photo" THEN "error"
                                          ELSE "processing_failed"])]
        /\ UNCHANGED <<sessions, threads, audio, tool, caseInsensitiveEnv, apiKey, env,
                       files, users, products, run, calls, reqs>>

\* open(processed_path, "rb") and requests.post (telegram_tool.py 129-132, 157-160)
PostStoryUpload(t) ==
    LET c == posts.calls[t]
    IN  /\ c.pc = "upload"
        /\ \E network \in {"ok", "raised"} :
              /\ posts.temp[c.kind] = "" => network = "ok"
              /\ posts' = [posts EXCEPT !.calls = SetPost(t,
                     IF posts.temp[c.kind] = ""
                     THEN [c EXCEPT !.pc = "finally", !.result = "FileNotFoundError"]
                     ELSE [c EXCEPT !.pc = "finally", !.posted = TRUE,
                                !.uploaded = posts.temp[c.kind],
                                !.result = IF network = "ok" THEN "response"
                                           ELSE "error"])]
        /\ UNCHANGED <<sessions, threads, audio, tool, caseInsensitiveEnv, apiKey, env,
                       files, users, products, run, calls, reqs>>

\* finally: if os.path.exists(processed_path) (telegram_tool.py 134, 162)
PostStoryFinally(t) ==
    LET c == posts.calls[t]
    IN  /\ c.pc = "finally"
        /\ posts' = [posts EXCEPT !.calls = SetPost(t,
               [c EXCEPT !.pc = IF posts.temp[c.kind] = "" THEN "ended" ELSE "remove"])]
        /\ UNCHANGED <<sessions, threads, audio, tool, caseInsensitiveEnv, apiKey, env,
                       files, users, products, run, calls, reqs>>

\* os.remove(processed_path) (telegram_tool.py 135, 163); it raises when the file
\* has gone since the test
PostStoryRemove(t) ==
    LET c == posts.calls[t]
    IN  /\ c.pc = "remove"
        /\ posts' = [posts EXCEPT
               !.temp = RemoveTemp(@, c.kind),
               !.calls = SetPost(t,
                  [c EXCEPT !.pc = "ended",
                            !.result = IF posts.temp[c.kind] = "" THEN "FileNotFoundError"
                                       ELSE @])]
        /\ UNCHANGED <<sessions, threads, audio, tool, caseInsensitiveEnv, apiKey, env,
                       files, users, products, run, calls, reqs>>

\* the caller has the result or the exception
PostStoryReturn(t) ==
    /\ posts.calls[t].pc = "ended"
    /\ posts' = [posts EXCEPT !.calls = SetPost(t, IdlePost)]
    /\ UNCHANGED <<sessions, threads, audio, tool, caseInsensitiveEnv, apiKey, env, files,
                   users, products, run, calls, reqs>>

----------------------------------------------------------------------------
(* The orchestrator *)

Init ==
    /\ caseInsensitiveEnv \in BOOLEAN
    /\ apiKey \in BOOLEAN
    /\ env = EnvInit
    /\ files = {}
    /\ users = {}
    /\ products = {}
    /\ run = NoRun
    /\ calls = <<>>
    /\ reqs = [c \in Clients |-> IdleReq]
    /\ tool = IdleTool
    /\ audio = IdleAudio
    /\ threads = NoThreads
    /\ posts = NoPosts
    /\ sessions = NoSessions

Next ==
    \/ UiFullPromotion
    \/ UiPrice
    \/ UiStory
    \/ CliRun
    \/ CallPromotion
    \/ TextStep
    \/ StepRaises
    \/ execute_image_generation
    \/ execute_video_generation
    \/ PublishChannel
    \/ PublishStory
    \/ FinishRun
    \/ Return

Spec == Init /\ [][Next]_vars

\* the forms in Audio mode, and the runs they start
InitSpeech ==
    /\ caseInsensitiveEnv = FALSE
    /\ apiKey \in BOOLEAN
    /\ env = EnvInit
    /\ files = {}
    /\ users = {}
    /\ products = {}
    /\ run = NoRun
    /\ calls = <<>>
    /\ reqs = [c \in Clients |-> IdleReq]
    /\ tool = IdleTool
    /\ audio = IdleAudio
    /\ threads = NoThreads
    /\ posts = NoPosts
    /\ sessions = NoSessions

NextSpeech ==
    \/ UiAudioTranscribe
    \/ UiAudioReceive
    \/ UiAudioDone
    \/ TextStep
    \/ StepRaises
    \/ execute_image_generation
    \/ execute_video_generation
    \/ PublishChannel
    \/ PublishStory
    \/ FinishRun
    \/ Return

SpecSpeech == InitSpeech /\ [][NextSpeech]_vars

\* two threads of one process that call run_promotion_pipeline
InitOverlap ==
    /\ caseInsensitiveEnv = FALSE
    /\ apiKey = TRUE
    /\ env = EnvInit
    /\ files = {UploadedImage}
    /\ users = {}
    /\ products = {}
    /\ run = NoRun
    /\ calls = <<>>
    /\ reqs = [c \in Clients |-> IdleReq]
    /\ tool = IdleTool
    /\ audio = IdleAudio
    /\ threads = NoThreads
    /\ posts = NoPosts
    /\ sessions = NoSessions

NextOverlap ==
    \/ \E t \in Threads : ThreadSetEnv(t)
    \/ \E t \in Threads : ThreadBuildCrew(t)
    \/ \E t \in Threads : ThreadKickoff(t)
    \/ \E t \in Threads : ThreadStore(t)
    \/ \E t \in Threads : ThreadReturn(t)

SpecOverlap == InitOverlap /\ [][NextOverlap]_vars

\* the shop.db the storefront can find at its start: none, or the one main.py has
\* made for a pipeline run of a user who calls themself admin (main.py 76-112)
PriorUsers == {{}, AddProductUsers({}, "admin")}

\* the storefront with its sessions and the admin panel; one client uploads
InitAdmin ==
    /\ caseInsensitiveEnv = FALSE
    /\ apiKey = FALSE
    /\ env = EnvInit
    /\ files = {UploadedImage}
    /\ \E U \in PriorUsers :
          /\ users = init_default_users(U)
          /\ products = IF U = {} THEN {}
                        ELSE AddProductProducts({}, {}, "admin", "Mug", "v1", "", "0")
    /\ run = NoRun
    /\ calls = <<>>
    /\ reqs = [c \in Clients |-> IdleReq]
    /\ tool = IdleTool
    /\ audio = IdleAudio
    /\ threads = NoThreads
    /\ posts = NoPosts
    /\ sessions = NoSessions

NextAdmin ==
    \/ login_user
    \/ logout
    \/ homepage
    \/ delete_user
    \/ upload_product("c1")
    \/ upload_flush("c1")
    \/ upload_commit("c1")
    \/ delete_product("c1")
    \/ delete_commit("c1")
    \/ Respond("c1")

SpecAdmin == InitAdmin /\ [][NextAdmin]_vars

\* two threads of one process that post stories
InitStory ==
    /\ caseInsensitiveEnv = FALSE
    /\ apiKey = TRUE
    /\ env = EnvInit
    /\ files = {}
    /\ users = {}
    /\ products = {}
    /\ run = NoRun
    /\ calls = <<>>
    /\ reqs = [c \in Clients |-> IdleReq]
    /\ tool = IdleTool
    /\ audio = IdleAudio
    /\ threads = NoThreads
    /\ \E b \in BOOLEAN : posts = [NoPosts EXCEPT !.businessConnection = b]
    /\ sessions = NoSessions

NextStory ==
    \/ \E t \in Threads : PostStoryCall(t)
    \/ \E t \in Threads : PostStoryProcess(t)
    \/ \E t \in Threads : PostStoryUpload(t)
    \/ \E t \in Threads : PostStoryFinally(t)
    \/ \E t \in Threads : PostStoryRemove(t)
    \/ \E t \in Threads : PostStoryReturn(t)

SpecStory == InitStory /\ [][NextStory]_vars

----------------------------------------------------------------------------
(* The storefront *)

InitShop ==
    /\ caseInsensitiveEnv = FALSE
    /\ apiKey = FALSE
    /\ env = EnvInit
    /\ files = {UploadedImage}
    /\ users = DefaultUsers
    /\ products = {}
    /\ run = NoRun
    /\ calls = <<>>
    /\ reqs = [c \in Clients |-> IdleReq]
    /\ tool = IdleTool
    /\ audio = IdleAudio
    /\ threads = NoThreads
    /\ posts = NoPosts
    /\ sessions = NoSessions

NextShop ==
    \/ \E c \in Clients : upload_product(c)
    \/ \E c \in Clients : api_upload_product(c)
    \/ \E c \in Clients : upload_flush(c)
    \/ \E c \in Clients : upload_commit(c)
    \/ \E c \in Clients : add_product_to_website(c)
    \/ \E c \in Clients : add_product_commit_user(c)
    \/ \E c \in Clients : add_product_lookup(c)
    \/ \E c \in Clients : add_product_commit(c)
    \/ \E c \in Clients : delete_product(c)
    \/ \E c \in Clients : delete_commit(c)
    \/ \E c \in Clients : Respond(c)

SpecShop == InitShop /\ [][NextShop]_vars

----------------------------------------------------------------------------
(* The video tools *)

InitVideo ==
    /\ caseInsensitiveEnv = FALSE
    /\ apiKey \in BOOLEAN
    /\ env = EnvInit
    /\ files = {UploadedImage}
    /\ users = {}
    /\ products = {}
    /\ run = NoRun
    /\ calls = <<>>
    /\ reqs = [c \in Clients |-> IdleReq]
    /\ tool = IdleTool
    /\ audio = IdleAudio
    /\ threads = NoThreads
    /\ posts = NoPosts
    /\ sessions = NoSessions

NextVideo ==
    \/ ToolCall
    \/ ToolPrepareImage
    \/ ToolGenerateVideos
    \/ ToolPoll
    \/ ToolFinish
    \/ ToolReturn

SpecVideo == InitVideo /\ [][NextVideo]_vars

----------------------------------------------------------------------------
(* Claims about the orchestrator, stated for Spec *)

Count(seq, x) == Cardinality({i \in DOMAIN seq : seq[i] = x})

FirstIndex(seq, x) == CHOOSE i \in DOMAIN seq : seq[i] = x /\ \A j \in DOMAIN seq : seq[j] = x => i <= j

\* a required field of the request is empty or whitespace-only
MissingField(r) ==
    \/ Strip(r.user) = ""
    \/ Strip(r.product) = ""
    \/ Strip(r.details) = ""
    \/ (r.kind = "story" /\ r.story = "")

\* the catalog records of the run's (user_name, product_name)
RunRecords ==
    {p \in products : p.name = Strip(run.product)
                      /\ \E u \in users : u.id = p.user_id /\ u.username = Strip(run.user)}

\* C1: a request with a missing required field fails with a missing-field error and
\* no chain is kicked off and no adapter is called for it.
C1_MissingFieldRejectedBeforeAdapters ==
    (run.kind # "none" /\ MissingField(run)) => (run.phase = "rejected" /\ calls = <<>>)

\* C2: a full_promotion request runs the with-image chain exactly when its image path
\* is non-empty and names an existing file.
C2_WithImageIffExistingFile ==
    (run.kind = "full_promotion" /\ run.phase = "running")
        => (run.chain = "with_image" <=> run.imgExisted)

\* C3: a full_promotion run whose image path names an existing file never invokes
\* generate_images, and the supplied image is the one handed to video generation.
C3_SuppliedImageNeverRegenerated ==
    (run.kind = "full_promotion" /\ run.imgExisted)
        => /\ Count(calls, "generate_images") = 0
           /\ run.usedImage \in {"", run.img, WebPath(Basename(run.img))}

\* C4: a full_promotion run with an empty image path invokes generate_images exactly
\* once, and before generate_videos.
C4_ImageGeneratedOnceBeforeVideo ==
    (run.kind = "full_promotion" /\ run.img = "")
        => /\ Count(calls, "generate_images") <= 1
           /\ Count(calls, "generate_videos") > 0
                => /\ Count(calls, "generate_images") = 1
                   /\ FirstIndex(calls, "generate_images") < FirstIndex(calls, "generate_videos")
           /\ run.phase = "returned" => Count(calls, "generate_images") = 1

\* C5: the record a full_promotion run writes for cost string s holds the integer
\* value of s when s is all digits and 0 otherwise, whatever ran before.
C5_StoredPriceIsCoercedCost ==
    (run.kind = "full_promotion" /\ run.ui /\ run.phase = "returned" /\ run.created)
        => \A p \in RunRecords : p.price = StrOfInt(CoerceCost(run.costText))

\* C8: a completed full_promotion or story run leaves one record for its
\* (user_name, product_name) holding the details and price of that run, created by
\* the first completion and updated in place by the later ones.
C8_CompletionUpsertsRecord ==
    (run.phase = "returned" /\ run.stored)
        => /\ Cardinality(RunRecords) = 1
           /\ ~run.created
                => \A p \in RunRecords : /\ p.details = Strip(run.details)
                                         /\ p.price = StrOfInt(run.cost)

\* C9: the record a completed run creates has as image_path the image the run used,
\* copied to the uploads directory: the uploaded one, or the one the run generated.
C9_RecordImageIsImageUsed ==
    (/\ run.phase = "returned" /\ run.created
     /\ (run.imgExisted \/ (run.img = "" /\ run.usedImage = GeneratedImagePath)))
        => \A p \in RunRecords :
              LET used == IF run.imgExisted THEN run.img ELSE GeneratedImagePath
              IN  /\ p.image_path = Basename(used)
                  /\ WebPath(Basename(used)) \in files

IndexOf(seq, x) == IF \E i \in DOMAIN seq : seq[i] = x THEN FirstIndex(seq, x) ELSE 0

\* the video step of the run has ended without a generated video
VideoStepFailed ==
    /\ run.kind = "full_promotion"
    /\ IndexOf(ChainOf(run.chain), "execute_video_generation") > 0
    /\ run.pc > IndexOf(ChainOf(run.chain), "execute_video_generation")
    /\ run.video # GeneratedVideoPath

GeneratedMedia == {GeneratedImagePath, GeneratedVideoPath, SampleVideoPath}

\* C12 as stated: after a full_promotion run, successful or failed, none of the
\* generated media files is left on disk.
C12_MediaDeletedAfterFullPromotion ==
    (run.kind = "full_promotion" /\ run.phase \in {"returned", "raised"})
        => files \cap GeneratedMedia = {}

\* C12 as amended: no pipeline run, of any kind and however it ends, deletes a file:
\* every file present before a step of the orchestrator is present after it.
C12_RunsDeleteNoFile ==
    [][files \subseteq files']_vars

\* a full_promotion run has returned and the image and the video it generated are
\* on disk
C12_Witness ==
    /\ run.kind = "full_promotion" /\ run.phase = "returned"
    /\ run.usedImage = GeneratedImagePath /\ run.video = GeneratedVideoPath
    /\ {GeneratedImagePath, GeneratedVideoPath} \subseteq files

\* the two image steps of the without-image chain
NotImageStep(s) == s \notin {"generate_imagen_prompt", "execute_image_generation"}

\* the place of an adapter call in the order of a promotion chain
Rank(call) ==
    CASE call = "generate_images" -> 1
      [] call = "generate_videos" -> 2
      [] call = "publish_channel" -> 3
      [] call = "publish_story" -> 4
      [] OTHER -> 0

\* C15: the without-image chain is summarize, caption, image prompt, image
\* generation, video prompt, video generation, publish to channel, publish to story;
\* the with-image chain is that sequence without the two image steps; and in a
\* full_promotion run the adapters are called in that order: a publish step runs only
\* after the video step, and publish to story only after publish to channel.
C15_ChainOrder ==
    /\ crew_without_image =
          <<"summary_generator", "caption_generation", "generate_imagen_prompt",
            "execute_image_generation", "generate_veo_prompt", "execute_video_generation",
            "telegram_channel_post_task", "telegram_story_task">>
    /\ crew_with_image = SelectSeq(crew_without_image, NotImageStep)
    /\ run.kind = "full_promotion"
         => /\ \A i, j \in DOMAIN calls : i < j => Rank(calls[i]) <= Rank(calls[j])
            /\ Count(calls, "publish_story") > 0 => Count(calls, "publish_channel") = 1
            /\ Count(calls, "publish_channel") > 0
                 => run.pc > IndexOf(ChainOf(run.chain), "execute_video_generation")

\* a with-image run has returned after video generation, publish to channel and
\* publish to story, in that order
C15_Witness ==
    /\ run.kind = "full_promotion" /\ run.chain = "with_image" /\ run.phase = "returned"
    /\ calls = <<"generate_videos", "publish_channel", "publish_story">>

\* C16: a price_only run has one step, the price analysis; no step of it calls a
\* media or publishing adapter, and no step of it, its return included, changes
\* users or products.
C16_PriceOnlyFrame ==
    [][(run'.kind = "price_only" /\ run'.phase \in {"running", "returned", "raised"})
          => /\ ChainOf(run'.chain) = <<"price_analysis_task">>
             /\ run'.pc <= 2
             /\ calls' = <<>>
             /\ run.kind = "price_only" => (users' = users /\ products' = products)]_vars

\* a price_only run has returned its analysis while the catalog holds a record
C16_Witness ==
    /\ run.kind = "price_only" /\ run.phase = "returned" /\ run.pc = 2
    /\ products # {} /\ ~run.stored

\* the value the chain is built with for a field of the request: the value of
\* the request, or the default of crew.py when the request leaves it empty
OwnOrDefault(v, default) == IF Strip(v) # "" THEN Strip(v) ELSE default

\* C25: a pipeline run depends only on its own inputs, whatever ran before in the
\* process: its chain is built with the user, product, details and story of its
\* request, a field the request leaves empty has the default and not the value an
\* earlier run left behind, and a full_promotion run without an image selects the
\* without-image chain.
C25_RunDependsOnlyOnItsInputs ==
    (run.phase = "running")
        => /\ run.crew.user = OwnOrDefault(run.user, "the user")
           /\ run.crew.product_name = OwnOrDefault(run.product, "our amazing product")
           /\ run.crew.product_description =
                 OwnOrDefault(run.details, "a detailed product description")
           /\ run.crew.user_story =
                 OwnOrDefault(run.story, "their personal journey and challenges")
           /\ (run.kind = "full_promotion" /\ Strip(run.img) = "")
                 => (run.chain = "without_image" /\ run.crew.image_path = "")

----------------------------------------------------------------------------
(* Claims about the storefront, stated for SpecShop *)

\* C6: an upsert through the storefront that finds the record of its
\* (username, product name) leaves exactly one row for the pair, holding the details
\* and the price of this upsert under the id the row had.
C6_SecondUpsertUpdatesInPlace ==
    [][\A c \in Clients :
          LET r == reqs[c]
          IN  (/\ r.kind \in {"upload", "api"} /\ r.phase = "commit"
               /\ reqs'[c].phase = "done"
               /\ \E p \in ProductsOf(products, r.uid, r.name) : p.id = r.found)
                => \E p \in products' :
                      /\ ProductsOf(products', r.uid, r.name) = {p}
                      /\ p.id = r.found
                      /\ p.details = r.details
                      /\ p.price = r.price]_vars

\* an upsert with (v2, 12) has updated the row an upsert with (v1, 10) had left
C6_Witness ==
    \E c \in Clients :
        /\ reqs[c].kind \in {"upload", "api"} /\ reqs[c].phase = "done"
        /\ reqs[c].outcome = "updated" /\ reqs[c].seen = "v1" /\ reqs[c].details = "v2"
        /\ \E p \in products : /\ p.id = reqs[c].found /\ p.details = "v2"
                                /\ p.price = "12" /\ p.name = reqs[c].name

\* C17: an upsert that finds its (user, product name) record overwrites the
\* image_path of the record only when the request carries an image the handler has
\* stored; when the request carries none, the image_path of the record after the
\* upsert is its image_path before, and details and price are those of the request;
\* no other record changes.
C17_ImageKeptWithoutNewImage ==
    [][\A c \in Clients :
          LET r == reqs[c]
          IN  (/\ r.kind \in {"upload", "api"} /\ r.phase \in {"commit", "flush"}
               /\ reqs'[c].outcome = "updated")
                => /\ r.image = "" => reqs'[c].image_path = ""
                   /\ \A p \in products :
                         IF p.user_id = reqs'[c].uid /\ p.name = r.name
                         THEN \E q \in products' :
                                 /\ q.id = p.id /\ q.name = p.name /\ q.user_id = p.user_id
                                 /\ q.details = r.details /\ q.price = r.price
                                 /\ q.image_path = IF reqs'[c].image_path = ""
                                                   THEN p.image_path
                                                   ELSE reqs'[c].image_path
                         ELSE p \in products'
                   /\ Cardinality(products') = Cardinality(products)]_vars

\* an upsert without an image has updated (v1, 10) to (v2, 12) on a record that
\* holds an image, and the record still holds it
C17_Witness ==
    \E c \in Clients :
        /\ reqs[c].kind \in {"upload", "api"} /\ reqs[c].outcome = "updated"
        /\ reqs[c].image = "" /\ reqs[c].image_path = ""
        /\ reqs[c].seen = "v1" /\ reqs[c].details = "v2"
        /\ \E p \in products : /\ p.id = reqs[c].found /\ p.image_path # ""
                                /\ p.details = "v2" /\ p.price = "12"

UpsertKinds == {"upload", "api", "add_product"}

\* C18: an upsert that reaches its INSERT of the user while no record has exactly
\* its username creates exactly one user record, with that username and is_admin
\* false, and a product it then stores is stored under that user; an upsert whose
\* username exactly equals that of a record takes that record, without an INSERT of
\* a user; no step removes or changes a user record, and no two records share a
\* username.
C18_UserCreatedOnFirstUpsert ==
    [][/\ users \subseteq users'
       /\ \A u, v \in users' : u.username = v.username => u = v
       /\ users' # users
            => \E c \in Clients :
                  /\ reqs[c].kind \in UpsertKinds
                  /\ reqs[c].phase \in {"flush", "add_user"}
                  /\ \A u \in users : u.username # reqs[c].username
                  /\ \E u \in users' :
                        /\ users' = users \cup {u} /\ u \notin users
                        /\ u.username = reqs[c].username /\ u.is_admin = FALSE
                        /\ reqs'[c].uid = u.id
       /\ \A c \in Clients :
             /\ (reqs[c].phase = "idle" /\ reqs'[c].kind \in UpsertKinds)
                  => IF \E u \in users : u.username = reqs'[c].username
                     THEN /\ users' = users
                          /\ reqs'[c].phase \notin {"flush", "add_user"}
                          /\ \E u \in users : /\ u.username = reqs'[c].username
                                               /\ reqs'[c].uid = u.id
                     ELSE reqs'[c].phase \in {"flush", "add_user"}
             /\ (reqs'[c].kind \in UpsertKinds /\ reqs[c].phase # "done"
                 /\ reqs'[c].outcome \in {"created", "updated"})
                  => \E u \in users', p \in products' :
                        /\ u.username = reqs'[c].username /\ u.id = reqs'[c].uid
                        /\ p.user_id = u.id /\ p.name = reqs'[c].name]_vars

\* the first upsert by "User" has created the user record 3 beside the default
\* "user" and stored its product under it
C18_Witness ==
    \E c \in Clients :
        /\ reqs[c].kind \in {"upload", "api"} /\ reqs[c].outcome = "created"
        /\ reqs[c].username = "User" /\ reqs[c].uid = 3 /\ reqs[c].found = 0
        /\ users = DefaultUsers \cup {[id |-> 3, username |-> "User", is_admin |-> FALSE]}
        /\ \E p \in products : p.user_id = 3 /\ p.name = reqs[c].name

\* C24: two concurrent upserts on the same (user, product name) key both complete
\* and the last one to commit wins: an upsert that comes to its commit, with the
\* record it found still there or with none found, completes and leaves exactly one
\* record for the key, holding its details and price.
C24_ConcurrentUpsertsLastWriteWins ==
    [][\A c \in Clients :
          LET r == reqs[c]
          IN  (/\ r.kind \in {"upload", "api"} /\ r.phase = "commit"
               /\ reqs'[c] # r
               /\ r.found # 0 => \E p \in products : p.id = r.found)
                => /\ reqs'[c].phase = "done"
                   /\ \E p \in products' :
                         /\ ProductsOf(products', r.uid, r.name) = {p}
                         /\ p.details = r.details /\ p.price = r.price]_vars

\* C7: no two product records share the same (owner user id, product name).
C7_OwnerNameUnique ==
    \A p, q \in products : (p.user_id = q.user_id /\ p.name = q.name) => p = q

\* an INSERT that raced another writer of the same pair has been refused, and the
\* pair has its one record
C7_Witness ==
    \E c \in Clients :
        /\ reqs[c].outcome \in {"duplicate", "failed"} /\ reqs[c].uid # 0
        /\ Cardinality(ProductsOf(products, reqs[c].uid, reqs[c].name)) = 1

----------------------------------------------------------------------------
(* Claims about the video tools, stated for SpecVideo *)

C14_NeverDoneTimesOut ==
    (tool.entry # "none" /\ tool.never)
        => /\ tool.elapsed <= VEO_TIMEOUT_SECONDS + VEO_POLL_INTERVAL_SECONDS
           /\ (tool.pc = "done" /\ tool.reads >= 1 /\ tool.exit # "poll_error")
                => tool.result = "TimeoutError"

\* C20: a tool given a non-empty image path that names no file fails with a not-found
\* error before it has invoked any external endpoint.
C20_MissingImageIsNotFound ==
    (/\ apiKey /\ tool.entry # "none" /\ tool.pc # "start"
     /\ tool.image_path # "" /\ tool.image_path \notin files)
        => (calls = <<>> /\ tool.result = "FileNotFoundError")

\* C21: with no API credential configured, every media-generation entry point ends
\* with a configuration error, having called no external endpoint, and returns no
\* media path.
C21_NoCredentialIsConfigError ==
    (~apiKey /\ tool.pc = "done")
        => (tool.result = "ValueError" /\ calls = <<>>)

----------------------------------------------------------------------------
(* Claims about the audio mode of the forms, stated for SpecSpeech *)

\* the results with which transcribe_speech reports a failure
TranscriptionFailed(a) == ~a.speech \/ ~a.exists \/ a.recognition = "raised"

----------------------------------------------------------------------------
(* Claims about overlapping pipeline calls, stated for SpecOverlap *)

\* C23: when two pipeline runs overlap in one process, a run reads the process-wide
\* configuration as the last writer left it, whichever request that was: it builds
\* its chain from the environment of the moment, and the record it adds to the
\* catalog has the cost and the image path of the moment; so there is an
\* interleaving in which these are the values of the other request.
C23_RunReadsSharedConfiguration ==
    [][\A t \in Threads :
          /\ (threads[t].pc = "env" /\ threads'[t].pc = "kickoff")
               => /\ threads'[t].crew = CrewInit(env)
                  /\ threads'[t].chain = SelectChain(threads[t].img, env)
          /\ (threads[t].pc = "returned" /\ threads'[t].pc = "done"
              /\ products' # products)
               => \E p \in products' :
                     /\ products' = products \cup {p} /\ p.name = threads[t].product
                     /\ p.price = Getenv(env, "cost", "0")
                     /\ p.image_path = Basename(Getenv(env, "image_path", ""))]_vars

\* the run of one thread has built its chain for the user of the other request, and
\* has recorded its own product with the cost of the other request
C23_Witness ==
    \E t, u \in Threads :
        /\ t # u /\ threads[t].pc = "done" /\ threads[u].pc # "idle"
        /\ threads[t].user # threads[u].user /\ threads[t].cost # threads[u].cost
        /\ threads[t].crew.user = threads[u].user
        /\ threads[t].crew.product_name = threads[u].product
        /\ \E p \in products : /\ p.name = threads[t].product
                                /\ p.price = StrOfInt(threads[u].cost)

----------------------------------------------------------------------------
(* Claims about the story posts, stated for SpecStory *)

\* C29: when a story post ends, whether it returns the API response, returns the
\* processing-failed result or raises, the processed temp file of its kind does not
\* exist; with no business-connection id the call ends with the ValueError, no file
\* is written and no network call is made.
C29_NoTempFileLeftBehind ==
    [][\A t \in Threads :
          LET c == posts'.calls[t]
          IN  (posts.calls[t].pc # "ended" /\ c.pc = "ended")
                => /\ posts'.temp[c.kind] = ""
                   /\ ~posts.businessConnection
                        => (/\ c.result = "ValueError" /\ ~c.posted
                            /\ posts'.temp = posts.temp
                            /\ \A k \in StoryKinds : posts.temp[k] = "")]_vars

\* a video post has returned the processing-failed result after a partial file was
\* written, and the file is gone
C29_Witness ==
    \E t \in Threads :
        /\ posts.calls[t].pc = "ended" /\ posts.calls[t].kind = "video"
        /\ posts.calls[t].result = "processing_failed"
        /\ posts.temp["video"] = ""
        /\ \A u \in Threads \ {t} : posts.calls[u].pc = "idle"

\* C30: two story posts of the same kind that overlap in one process do not
\* interfere: each call uploads the media processed from its own input file, and
\* neither fails because the other wrote or removed the processed temp file.
C30_OverlappingPostsDoNotInterfere ==
    \A t \in Threads :
        LET c == posts.calls[t]
        IN  /\ c.uploaded # "" => c.uploaded = c.input
            /\ c.result # "FileNotFoundError"

----------------------------------------------------------------------------
(* Claims about sessions and the admin panel, stated for SpecAdmin *)

\* C26: after a logged-in user has logged out, a request that presents the session
\* id issued at the login is not authenticated: get_current_user returns no user
\* for it.
C26_LoggedOutSessionIsRejected ==
    [][(sessions'.seen # sessions.seen /\ sessions'.seen.token \in sessions.retired)
          => sessions'.seen.user = 0]_vars

\* C27: delete_user removes a user only when the caller is authenticated as an
\* admin and the target is not an admin; and in every state after the start of the
\* storefront the user "admin" exists with is_admin = true.
C27_AdminAlwaysExists ==
    [][/\ users' # users /\ ~(users \subseteq users')
            => /\ \E u \in users : u.id = sessions'.seen.user /\ u.is_admin
               /\ \A u \in users \ users' : ~u.is_admin
       /\ \E u \in users' : u.username = "admin" /\ u.is_admin]_vars

\* C28: every product record's owner user id is the id of an existing user record.
C28_EveryProductHasItsOwner ==
    \A p \in products : \E u \in users : u.id = p.user_id

----------------------------------------------------------------------------
(* Claims about the deletion of products, stated for SpecShop *)

\* C19: a delete-product request from a caller who is not authenticated as an admin
\* user (no session cookie, an unknown session, or the session of a non-admin user)
\* removes no product record and no image file.
C19_DeleteIsAdminOnly ==
    [][\A c \in Clients :
          (/\ reqs'[c] # reqs[c]
           /\ reqs'[c].kind = "delete_product"
           /\ reqs'[c].caller # "admin")
            => (products \subseteq products' /\ files \subseteq files')]_vars

====================================================================================
